---------------------------- MODULE Spec2Model ----------------------------
(***************************************************************************)
(* Model of src/api/sysfs/KernelApiSysfsTest.py: the content validators,   *)
(* the permission helpers, the path checks (testCpuOnlineFormat, testIpv4, *)
(* testLastResumeReason, testKernelMax, testNetMTU, testRtcHctosys,        *)
(* testWakeupCount) and the wake-lock protocol test (testWakeLock).        *)
(*                                                                         *)
(* Text (file content, command output, wake-lock names) is a sequence of   *)
(* one-character strings, so that it can be scanned position by position.  *)
(* Paths and message formats are TLA+ strings.                             *)
(***************************************************************************)
EXTENDS Integers, Sequences, FiniteSets, TLC

VARIABLES
    test,          \* the test method (or validator) being run, "idle" before
    pc,            \* position inside the running test
    fs,            \* the device's files the test consults: path -> file state
    links,         \* the device's symbolic links under the class directory
    dirlist,       \* result of target_file_utils.FindFiles (rtclist / dirlist)
    idx,           \* 1-based position of the for loop in its list
    calls,         \* remote calls issued so far, in order
    verdict,       \* "running", "pass", "AssertionFailure" or "IOError"
    message,       \* message of the failure that ended the test
    regex,         \* MatchRegex argument
    text,          \* ConvertToInteger / MatchRegex argument
    returned,      \* value returned by ConvertToInteger
    lock_name,     \* testWakeLock's token
    reads,         \* stdout of each `cat` of testWakeLock, in order
    wakelocks,     \* kernel: registered wake-lock names, in registration order
    activeLocks,   \* kernel: names currently active
    acquired       \* history: names for which an acquire was executed

vars == <<test, pc, fs, links, dirlist, idx, calls, verdict, message, regex, text,
          returned, lock_name, reads, wakelocks, activeLocks, acquired>>

-----------------------------------------------------------------------------
(* Bounds of the model. *)

\* longest text handed to the validators
MaxText == 3
\* longest content of /sys/devices/system/cpu/online enumerated exhaustively
MaxContent == 3
\* most entries FindFiles returns
MaxEntries == 3
\* longest stdout of a `cat` drawn freely in the wake-lock test
MaxOut == 3

-----------------------------------------------------------------------------
(* Text helpers. *)

Range(s) == {s[k] : k \in 1..Len(s)}

Digits == {"0", "1", "2", "3", "4", "5", "6", "7", "8", "9"}

\* str.isspace() for the characters the model uses
Whitespace == {" ", "\n", "\t"}

DigitValue(c) ==
    CASE c = "0" -> 0 [] c = "1" -> 1 [] c = "2" -> 2 [] c = "3" -> 3
      [] c = "4" -> 4 [] c = "5" -> 5 [] c = "6" -> 6 [] c = "7" -> 7
      [] c = "8" -> 8 [] c = "9" -> 9

\* all texts over alphabet of length at most n
TextsUpTo(alphabet, n) == UNION {[1..k -> alphabet] : k \in 0..n}

-----------------------------------------------------------------------------
(* Python's int(text), base 10: leading whitespace, an optional sign,      *)
(* at least one digit, trailing whitespace, then the end of the text.      *)
(* The result is [ok |-> FALSE] for ValueError.                            *)

RECURSIVE SkipSpace(_, _)
SkipSpace(s, k) ==
    IF k <= Len(s) /\ s[k] \in Whitespace THEN SkipSpace(s, k + 1) ELSE k

RECURSIVE ScanDigits(_, _)
ScanDigits(s, k) ==
    IF k <= Len(s) /\ s[k] \in Digits THEN ScanDigits(s, k + 1) ELSE k

RECURSIVE DigitsValue(_, _, _)
DigitsValue(s, from, to) ==
    IF to < from THEN 0
    ELSE 10 * DigitsValue(s, from, to - 1) + DigitValue(s[to])

\* int() that does not skip surrounding whitespace
intNoStrip(s) ==
    LET signed == 1 <= Len(s) /\ s[1] \in {"+", "-"}
        b      == IF signed THEN 2 ELSE 1
        c      == ScanDigits(s, b)
        mag    == DigitsValue(s, b, c - 1)
    IN  IF c > b /\ c = Len(s) + 1
        THEN [ok |-> TRUE, value |-> IF signed /\ s[1] = "-" THEN 0 - mag ELSE mag]
        ELSE [ok |-> FALSE, value |-> 0]

int(s) ==
    LET a      == SkipSpace(s, 1)
        signed == a <= Len(s) /\ s[a] \in {"+", "-"}
        b      == IF signed THEN a + 1 ELSE a
        c      == ScanDigits(s, b)
        d      == SkipSpace(s, c)
        mag    == DigitsValue(s, b, c - 1)
    IN  IF c > b /\ d = Len(s) + 1
        THEN [ok |-> TRUE, value |-> IF signed /\ s[a] = "-" THEN 0 - mag ELSE mag]
        ELSE [ok |-> FALSE, value |-> 0]

-----------------------------------------------------------------------------
(* Failure messages: a format and the values substituted into it.          *)

NoMessage == [fmt |-> "", path |-> "", text |-> <<>>, regex |-> ""]

Msg(fmt, path, txt, re) == [fmt |-> fmt, path |-> path, text |-> txt, regex |-> re]

\* outcome of a helper: it returns (a value) or raises an assertion failure
Returns(v) == [raised |-> FALSE, value |-> v, message |-> NoMessage]
Fails(m)   == [raised |-> TRUE, value |-> 0, message |-> m]

ConvertToInteger(s) ==
    IF int(s).ok
    THEN Returns(int(s).value)
    ELSE Fails(Msg("Content \"%s\" is not integer", "", s, ""))

-----------------------------------------------------------------------------
(* Regular expressions.  re.compile is modelled by a table from the        *)
(* pattern's source to its syntax tree; pattern.match by a backtracking    *)
(* matcher that tries alternatives in the order Python's re does: the      *)
(* left branch of | first, the longest repetition first.                   *)

Chr(c)    == [op |-> "chr", c |-> c]
AnyDigit  == [op |-> "digit"]
Cat(a, b) == [op |-> "cat", a |-> a, b |-> b]
Alt(a, b) == [op |-> "alt", a |-> a, b |-> b]
Star(a)   == [op |-> "star", a |-> a]
Opt(a)    == [op |-> "opt", a |-> a]
Plus(a)   == Cat(a, Star(a))

\* \d+(-\d+)?
OnlineItem == Cat(Plus(AnyDigit), Opt(Cat(Chr("-"), Plus(AnyDigit))))

OnlineRegex == "(\\d+(-\\d+)?)(,\\d+(-\\d+)?)*"

compile(re) ==
    CASE re = OnlineRegex -> Cat(OnlineItem, Star(Cat(Chr(","), OnlineItem)))
      [] re = "a|ab"      -> Alt(Chr("a"), Cat(Chr("a"), Chr("b")))
      [] re = "ab|a"      -> Alt(Cat(Chr("a"), Chr("b")), Chr("a"))
      [] re = "a*b?"      -> Cat(Star(Chr("a")), Opt(Chr("b")))
      [] re = "(a|b)*a"   -> Cat(Star(Alt(Chr("a"), Chr("b"))), Chr("a"))
      [] re = "\\d+"      -> Plus(AnyDigit)

Regexes == {OnlineRegex, "a|ab", "ab|a", "a*b?", "(a|b)*a", "\\d+"}

\* MatchEnds(r, s, p): the offsets at which a match of r starting at offset p
\* of s can end, in the order the backtracking matcher finds them.
RECURSIVE MatchEnds(_, _, _), ContinueFrom(_, _, _)
MatchEnds(r, s, p) ==
    CASE r.op = "chr"   -> IF p < Len(s) /\ s[p + 1] = r.c THEN <<p + 1>> ELSE <<>>
      [] r.op = "digit" -> IF p < Len(s) /\ s[p + 1] \in Digits THEN <<p + 1>> ELSE <<>>
      [] r.op = "cat"   -> ContinueFrom(r.b, s, MatchEnds(r.a, s, p))
      [] r.op = "alt"   -> MatchEnds(r.a, s, p) \o MatchEnds(r.b, s, p)
      [] r.op = "opt"   -> MatchEnds(r.a, s, p) \o <<p>>
      [] r.op = "star"  ->
            ContinueFrom(r, s, SelectSeq(MatchEnds(r.a, s, p), LAMBDA e : e > p))
                \o <<p>>
ContinueFrom(r, s, ends) ==
    IF ends = <<>> THEN <<>>
    ELSE MatchEnds(r, s, Head(ends)) \o ContinueFrom(r, s, Tail(ends))

NoMatch == [found |-> FALSE, start |-> 0, end |-> 0]

\* pattern.match(string): the first match found at offset 0, or None
match(re, s) ==
    LET ends == MatchEnds(compile(re), s, 0)
    IN  IF ends = <<>> THEN NoMatch
        ELSE [found |-> TRUE, start |-> 0, end |-> Head(ends)]

NotCompleteMatch(re, s) ==
    Msg("String \"%s\" is not a complete match of regex \"%s\".", "", s, re)

\* MatchRegex without the final comparison of match.end() with len(string)
MatchRegexPrefix(re, s) ==
    LET m == match(re, s)
    IN  IF ~m.found THEN Fails(NotCompleteMatch(re, s))
        ELSE IF m.start # 0 THEN Fails(NotCompleteMatch(re, s))
        ELSE Returns(0)

MatchRegex(re, s) ==
    LET m == match(re, s)
    IN  IF ~m.found THEN Fails(NotCompleteMatch(re, s))
        ELSE IF m.start # 0 THEN Fails(NotCompleteMatch(re, s))
        ELSE IF m.end # Len(s) THEN Fails(NotCompleteMatch(re, s))
        ELSE Returns(0)

-----------------------------------------------------------------------------
(* The device as the path checks see it.  A file state says whether the    *)
(* permission lookup succeeds, which permission bits it reports, whether   *)
(* the content read succeeds and what it returns.                          *)

\* permission bits, reduced to "some read bit is set" and "some write bit is set"
ReadOnlyBits  == [r |-> TRUE, w |-> FALSE]
ReadWriteBits == [r |-> TRUE, w |-> TRUE]
WriteOnlyBits == [r |-> FALSE, w |-> TRUE]
NoBits        == [r |-> FALSE, w |-> FALSE]

File(bits, content) == [stat |-> TRUE, perm |-> bits, cat |-> TRUE, content |-> content]
Unreadable(bits)    == [stat |-> TRUE, perm |-> bits, cat |-> FALSE, content |-> <<>>]
Absent              == [stat |-> FALSE, perm |-> NoBits, cat |-> FALSE, content |-> <<>>]

\* target_file_utils.IsReadOnly / IsReadWrite on permission bits
TargetIsReadOnly(bits)  == bits.r /\ ~bits.w
TargetIsReadWrite(bits) == bits.r /\ bits.w

\* remote calls, as logged
Call(op, path) == [op |-> op, path |-> path, arg |-> <<>>]

\* target_file_utils.GetPermission(path, shell): the bits, or IOError
GetPermission(path) ==
    [ioerror |-> ~fs[path].stat, perm |-> fs[path].perm]

\* target_file_utils.ReadFileContent(path, shell): the content, or IOError
ReadFileContent(path) ==
    [ioerror |-> ~fs[path].cat, content |-> fs[path].content]

GetPathPermission(path) ==
    LET g == GetPermission(path)
    IN  IF g.ioerror
        THEN [raised |-> TRUE, perm |-> NoBits,
              message |-> Msg("Path \"%s\" does not exist or has invalid permission bits",
                              path, <<>>, "")]
        ELSE [raised |-> FALSE, perm |-> g.perm, message |-> NoMessage]

IsReadOnly(path) ==
    LET g == GetPathPermission(path)
    IN  IF g.raised THEN Fails(g.message)
        ELSE IF ~TargetIsReadOnly(g.perm)
        THEN Fails(Msg("path %s is not read only", path, <<>>, ""))
        ELSE Returns(0)

\* IsReadWrite that accepts any path whose permission lookup succeeds
IsReadWriteAnyBits(path) ==
    LET g == GetPathPermission(path)
    IN  IF g.raised THEN Fails(g.message) ELSE Returns(0)

IsReadWrite(path) ==
    LET g == GetPathPermission(path)
    IN  IF g.raised THEN Fails(g.message)
        ELSE IF ~TargetIsReadWrite(g.perm)
        THEN Fails(Msg("path %s is not read write", path, <<>>, ""))
        ELSE Returns(0)

-----------------------------------------------------------------------------
(* The path checks.  Every remote call is one step.                        *)

CpuOnlinePath        == "/sys/devices/system/cpu/online"
LastResumeReasonPath == "/sys/kernel/wakeup_reasons/last_resume_reason"
KernelMaxPath        == "/sys/devices/system/cpu/kernel_max"
WakeupCountPath      == "/sys/power/wakeup_count"

\* testIpv4's files
files == <<"tcp_rmem_def", "tcp_rmem_max", "tcp_rmem_min",
           "tcp_wmem_def", "tcp_wmem_max", "tcp_wmem_min">>

Ipv4Path(k) == "/sys/kernel/ipv4/" \o files[k]

NetEntry(k) == "/sys/class/net/eth" \o ToString(k - 1)
RtcEntry(k) == "/sys/class/rtc/rtc" \o ToString(k - 1)

\* what the steps below leave alone
CheckFrame ==
    UNCHANGED <<test, fs, links, regex, text, returned, lock_name, reads,
                wakelocks, activeLocks, acquired>>

Finish(v, m) ==
    /\ pc' = "done"
    /\ verdict' = v
    /\ message' = m

Continue(at) ==
    /\ pc' = at
    /\ UNCHANGED <<verdict, message>>

\* the end of one pass through the loop body of testIpv4 / testNetMTU
NextEntry(n) ==
    IF idx < n
    THEN Continue("perm") /\ idx' = idx + 1
    ELSE Finish("pass", NoMessage) /\ UNCHANGED idx

\* content with one trailing newline removed (lines 111-112)
StripNewline(content) ==
    IF Len(content) >= 1 /\ content[Len(content)] = "\n"
    THEN SubSeq(content, 1, Len(content) - 1)
    ELSE content

\* lines 107-108
testCpuOnlineFormat_IsReadOnly ==
    /\ test = "testCpuOnlineFormat" /\ pc = "start"
    /\ calls' = Append(calls, Call("GetPermission", CpuOnlinePath))
    /\ LET o == IsReadOnly(CpuOnlinePath)
       IN  IF o.raised THEN Finish("AssertionFailure", o.message) ELSE Continue("read")
    /\ UNCHANGED <<idx, dirlist>>
    /\ CheckFrame

\* lines 109-113
testCpuOnlineFormat_Read ==
    /\ test = "testCpuOnlineFormat" /\ pc = "read"
    /\ calls' = Append(calls, Call("ReadFileContent", CpuOnlinePath))
    /\ LET c == ReadFileContent(CpuOnlinePath)
           o == MatchRegex(OnlineRegex, StripNewline(c.content))
       IN  IF c.ioerror THEN Finish("IOError", NoMessage)
           ELSE IF o.raised THEN Finish("AssertionFailure", o.message)
           ELSE Finish("pass", NoMessage)
    /\ UNCHANGED <<idx, dirlist>>
    /\ CheckFrame

\* testIpv4 that goes on to the content read whatever IsReadWrite found
testIpv4_IsReadWriteIgnored ==
    /\ test = "testIpv4" /\ pc \in {"start", "perm"}
    /\ calls' = Append(calls, Call("GetPermission", Ipv4Path(idx)))
    /\ Continue("read")
    /\ UNCHANGED <<idx, dirlist>>
    /\ CheckFrame

\* lines 119-121
testIpv4_IsReadWrite ==
    /\ test = "testIpv4" /\ pc \in {"start", "perm"}
    /\ calls' = Append(calls, Call("GetPermission", Ipv4Path(idx)))
    /\ LET o == IsReadWrite(Ipv4Path(idx))
       IN  IF o.raised THEN Finish("AssertionFailure", o.message) ELSE Continue("read")
    /\ UNCHANGED <<idx, dirlist>>
    /\ CheckFrame

\* lines 122-123 and the loop's next round
testIpv4_Read ==
    /\ test = "testIpv4" /\ pc = "read"
    /\ calls' = Append(calls, Call("ReadFileContent", Ipv4Path(idx)))
    /\ LET c == ReadFileContent(Ipv4Path(idx))
           o == ConvertToInteger(c.content)
       IN  IF c.ioerror THEN Finish("IOError", NoMessage) /\ UNCHANGED idx
           ELSE IF o.raised THEN Finish("AssertionFailure", o.message) /\ UNCHANGED idx
           ELSE NextEntry(Len(files))
    /\ UNCHANGED dirlist
    /\ CheckFrame

\* lines 125-128
testLastResumeReason ==
    /\ test = "testLastResumeReason" /\ pc = "start"
    /\ calls' = Append(calls, Call("GetPermission", LastResumeReasonPath))
    /\ LET o == IsReadOnly(LastResumeReasonPath)
       IN  IF o.raised THEN Finish("AssertionFailure", o.message)
           ELSE Finish("pass", NoMessage)
    /\ UNCHANGED <<idx, dirlist>>
    /\ CheckFrame

\* lines 132-133
testKernelMax_IsReadOnly ==
    /\ test = "testKernelMax" /\ pc = "start"
    /\ calls' = Append(calls, Call("GetPermission", KernelMaxPath))
    /\ LET o == IsReadOnly(KernelMaxPath)
       IN  IF o.raised THEN Finish("AssertionFailure", o.message) ELSE Continue("read")
    /\ UNCHANGED <<idx, dirlist>>
    /\ CheckFrame

\* lines 134-135
testKernelMax_Read ==
    /\ test = "testKernelMax" /\ pc = "read"
    /\ calls' = Append(calls, Call("ReadFileContent", KernelMaxPath))
    /\ LET c == ReadFileContent(KernelMaxPath)
           o == ConvertToInteger(c.content)
       IN  IF c.ioerror THEN Finish("IOError", NoMessage)
           ELSE IF o.raised THEN Finish("AssertionFailure", o.message)
           ELSE Finish("pass", NoMessage)
    /\ UNCHANGED <<idx, dirlist>>
    /\ CheckFrame

\* lines 139-141: the listing, and the loop's entry
testNetMTU_FindFiles ==
    /\ test = "testNetMTU" /\ pc = "start"
    /\ calls' = Append(calls, Call("FindFiles", "/sys/class/net"))
    /\ dirlist' = links
    /\ IF links = <<>> THEN Finish("pass", NoMessage) ELSE Continue("perm")
    /\ UNCHANGED idx
    /\ CheckFrame

\* lines 142-143
testNetMTU_IsReadWrite ==
    /\ test = "testNetMTU" /\ pc = "perm"
    /\ LET mtufile == dirlist[idx] \o "/mtu"
           o == IsReadWrite(mtufile)
       IN  /\ calls' = Append(calls, Call("GetPermission", mtufile))
           /\ IF o.raised THEN Finish("AssertionFailure", o.message)
              ELSE Continue("read")
    /\ UNCHANGED <<idx, dirlist>>
    /\ CheckFrame

\* lines 144-145 and the loop's next round
testNetMTU_Read ==
    /\ test = "testNetMTU" /\ pc = "read"
    /\ LET mtufile == dirlist[idx] \o "/mtu"
           c == ReadFileContent(mtufile)
           o == ConvertToInteger(c.content)
       IN  /\ calls' = Append(calls, Call("ReadFileContent", mtufile))
           /\ IF c.ioerror THEN Finish("IOError", NoMessage) /\ UNCHANGED idx
              ELSE IF o.raised
              THEN Finish("AssertionFailure", o.message) /\ UNCHANGED idx
              ELSE NextEntry(Len(dirlist))
    /\ UNCHANGED dirlist
    /\ CheckFrame

NoRtc == Msg("No RTC with hctosys=1 present", "", <<>>, "")

\* lines 149-151, and line 160 when the listing is empty
testRtcHctosys_FindFiles ==
    /\ test = "testRtcHctosys" /\ pc = "start"
    /\ calls' = Append(calls, Call("FindFiles", "/sys/class/rtc"))
    /\ dirlist' = links
    /\ IF links = <<>> THEN Finish("AssertionFailure", NoRtc) ELSE Continue("read")
    /\ UNCHANGED idx
    /\ CheckFrame

\* one round of the loop of lines 151-159, and line 160 after the last round
testRtcHctosys_Read ==
    /\ test = "testRtcHctosys" /\ pc = "read"
    /\ LET path == dirlist[idx] \o "/hctosys"
           c == ReadFileContent(path)
           hctosys == int(c.content)
       IN  /\ calls' = Append(calls, Call("ReadFileContent", path))
           /\ IF c.ioerror THEN Finish("IOError", NoMessage) /\ UNCHANGED idx
              ELSE IF hctosys.ok /\ hctosys.value = 1
              THEN Finish("pass", NoMessage) /\ UNCHANGED idx
              ELSE IF idx < Len(dirlist)
              THEN Continue("read") /\ idx' = idx + 1
              ELSE Finish("AssertionFailure", NoRtc) /\ UNCHANGED idx
    /\ UNCHANGED dirlist
    /\ CheckFrame

\* lines 190-192
testWakeupCount ==
    /\ test = "testWakeupCount" /\ pc = "start"
    /\ calls' = Append(calls, Call("GetPermission", WakeupCountPath))
    /\ LET o == IsReadWrite(WakeupCountPath)
       IN  IF o.raised THEN Finish("AssertionFailure", o.message)
           ELSE Finish("pass", NoMessage)
    /\ UNCHANGED <<idx, dirlist>>
    /\ CheckFrame

-----------------------------------------------------------------------------
(* The devices the path checks are run against.                            *)

\* content of an integer attribute: well formed, or not
IntContents == {<<"4", "\n">>, <<"x", "\n">>}

\* states of a file holding an integer attribute
IntFiles ==
    {Absent, Unreadable(ReadOnlyBits), Unreadable(ReadWriteBits)}
        \cup {File(b, c) : b \in {ReadOnlyBits, ReadWriteBits}, c \in IntContents}

Ipv4Files ==
    {Absent, Unreadable(ReadWriteBits), File(ReadOnlyBits, <<"4", "\n">>)}
        \cup {File(ReadWriteBits, c) : c \in IntContents}

\* states of a file only its permission is asked of
PermFiles == {Absent} \cup {File(b, <<>>) : b \in {ReadOnlyBits, ReadWriteBits,
                                                 WriteOnlyBits, NoBits}}

CpuAlphabet == {"0", "3", "-", ",", "a", "\n"}

CpuExamples ==
    { <<"0", "-", "3", ",", "5", ",", "7", "-", "8">>,
      <<"0", "-", "3", ",", "5", ",", "7", "-", "8", "\n">>,
      <<"0", "-", "3", ",", "5", ",", "7", "-", "8", "\n", "\n">>,
      <<"0", "-", "3", ",", ",", "5">>,
      <<"a", "b", "c">>,
      <<>> }

CpuContents == TextsUpTo(CpuAlphabet, MaxContent) \cup CpuExamples

CpuFiles ==
    {Absent, Unreadable(ReadOnlyBits)}
        \cup {File(b, c) : b \in {ReadOnlyBits, ReadWriteBits}, c \in CpuContents}

\* states of an rtc's hctosys attribute
RtcFiles ==
    {Absent} \cup {File(ReadOnlyBits, c) :
                     c \in {<<"0", "\n">>, <<"1", "\n">>, <<"x">>, <<"1", "0">>, <<>>}}

Tests == {"testCpuOnlineFormat", "testIpv4", "testLastResumeReason",
          "testKernelMax", "testNetMTU", "testRtcHctosys", "testWakeupCount"}

InitCheck ==
    /\ test \in Tests
    /\ \/ /\ test = "testCpuOnlineFormat"
          /\ links = <<>>
          /\ fs \in [{CpuOnlinePath} -> CpuFiles]
       \/ /\ test = "testIpv4"
          /\ links = <<>>
          /\ fs \in [{Ipv4Path(k) : k \in 1..Len(files)} -> Ipv4Files]
       \/ /\ test = "testLastResumeReason"
          /\ links = <<>>
          /\ fs \in [{LastResumeReasonPath} -> PermFiles]
       \/ /\ test = "testKernelMax"
          /\ links = <<>>
          /\ fs \in [{KernelMaxPath} -> IntFiles]
       \/ /\ test = "testNetMTU"
          /\ \E n \in 0..MaxEntries :
                /\ links = [k \in 1..n |-> NetEntry(k)]
                /\ fs \in [{NetEntry(k) \o "/mtu" : k \in 1..n} -> IntFiles]
       \/ /\ test = "testRtcHctosys"
          /\ \E n \in 0..MaxEntries :
                /\ links = [k \in 1..n |-> RtcEntry(k)]
                /\ fs \in [{RtcEntry(k) \o "/hctosys" : k \in 1..n} -> RtcFiles]
       \/ /\ test = "testWakeupCount"
          /\ links = <<>>
          /\ fs \in [{WakeupCountPath} -> PermFiles]
    /\ pc = "start"
    /\ dirlist = <<>>
    /\ idx = 1
    /\ calls = <<>>
    /\ verdict = "running"
    /\ message = NoMessage
    /\ regex = ""
    /\ text = <<>>
    /\ returned = 0
    /\ lock_name = <<>>
    /\ reads = <<>>
    /\ wakelocks = <<>>
    /\ activeLocks = {}
    /\ acquired = {}

Next ==
    \/ testCpuOnlineFormat_IsReadOnly
    \/ testCpuOnlineFormat_Read
    \/ testIpv4_IsReadWrite
    \/ testIpv4_Read
    \/ testLastResumeReason
    \/ testKernelMax_IsReadOnly
    \/ testKernelMax_Read
    \/ testNetMTU_FindFiles
    \/ testNetMTU_IsReadWrite
    \/ testNetMTU_Read
    \/ testRtcHctosys_FindFiles
    \/ testRtcHctosys_Read
    \/ testWakeupCount

Spec == InitCheck /\ [][Next]_vars

-----------------------------------------------------------------------------
(* testWakeLock.  Every shell.Execute is one step; the stdout of a `cat`   *)
(* is the step's parameter, supplied by the environment.                   *)

_WAKE_LOCK_PATH   == "/sys/power/wake_lock"
_WAKE_UNLOCK_PATH == "/sys/power/wake_unlock"

\* 'echo %s > %s' % (name, path) and 'cat %s' % path
Echo(name, path) == [op |-> "echo", path |-> path, arg |-> name]
Cat_(path)       == [op |-> "cat", path |-> path, arg |-> <<>>]

\* str.split(): the maximal runs of characters that are not whitespace
RECURSIVE SplitFrom(_, _, _)
SplitFrom(s, k, word) ==
    IF k > Len(s)
    THEN IF word = <<>> THEN <<>> ELSE <<word>>
    ELSE IF s[k] \in Whitespace
    THEN IF word = <<>> THEN SplitFrom(s, k + 1, <<>>)
         ELSE <<word>> \o SplitFrom(s, k + 1, <<>>)
    ELSE SplitFrom(s, k + 1, Append(word, s[k]))

split(s) == SplitFrom(s, 1, <<>>)

\* `name in stdout` on the unsplit text: name occurs somewhere in it
Substring(name, s) ==
    \E a \in 1..(Len(s) + 1 - Len(name)) : SubSeq(s, a, a + Len(name) - 1) = name

WakeFrame ==
    UNCHANGED <<test, fs, links, dirlist, idx, regex, text, returned, lock_name>>

\* line 169
testWakeLock_Enable ==
    /\ test = "testWakeLock" /\ pc = "lock"
    /\ calls' = Append(calls, Echo(lock_name, _WAKE_LOCK_PATH))
    /\ Continue("read1")
    /\ UNCHANGED reads
    /\ WakeFrame

\* lines 172-175 with an assertion that records the failure and goes on
testWakeLock_ConfirmEnabledSoft(stdout) ==
    /\ test = "testWakeLock" /\ pc = "read1"
    /\ calls' = Append(calls, Cat_(_WAKE_LOCK_PATH))
    /\ reads' = Append(reads, stdout)
    /\ pc' = "unlock"
    /\ LET active_sources == split(stdout)
       IN  IF lock_name \in Range(active_sources)
           THEN UNCHANGED <<verdict, message>>
           ELSE /\ verdict' = "AssertionFailure"
                /\ message' = Msg("active wake lock not reported in %s",
                                  _WAKE_LOCK_PATH, <<>>, "")
    /\ WakeFrame

\* lines 172-175
testWakeLock_ConfirmEnabled(stdout) ==
    /\ test = "testWakeLock" /\ pc = "read1"
    /\ calls' = Append(calls, Cat_(_WAKE_LOCK_PATH))
    /\ reads' = Append(reads, stdout)
    /\ LET active_sources == split(stdout)
       IN  IF lock_name \in Range(active_sources)
           THEN Continue("unlock")
           ELSE Finish("AssertionFailure",
                       Msg("active wake lock not reported in %s",
                           _WAKE_LOCK_PATH, <<>>, ""))
    /\ WakeFrame

\* line 178
testWakeLock_Disable ==
    /\ test = "testWakeLock" /\ pc = "unlock"
    /\ calls' = Append(calls, Echo(lock_name, _WAKE_UNLOCK_PATH))
    /\ Continue("read2")
    /\ UNCHANGED reads
    /\ WakeFrame

\* lines 181-184 with the token looked for in the unsplit stdout
testWakeLock_ConfirmDisabledUnsplit(stdout) ==
    /\ test = "testWakeLock" /\ pc = "read2"
    /\ calls' = Append(calls, Cat_(_WAKE_LOCK_PATH))
    /\ reads' = Append(reads, stdout)
    /\ IF ~Substring(lock_name, stdout)
       THEN Continue("read3")
       ELSE Finish("AssertionFailure",
                   Msg("inactive wake lock reported in %s", _WAKE_LOCK_PATH, <<>>, ""))
    /\ WakeFrame

\* lines 181-184
testWakeLock_ConfirmDisabled(stdout) ==
    /\ test = "testWakeLock" /\ pc = "read2"
    /\ calls' = Append(calls, Cat_(_WAKE_LOCK_PATH))
    /\ reads' = Append(reads, stdout)
    /\ LET active_sources == split(stdout)
       IN  IF lock_name \notin Range(active_sources)
           THEN Continue("read3")
           ELSE Finish("AssertionFailure",
                       Msg("inactive wake lock reported in %s",
                           _WAKE_LOCK_PATH, <<>>, ""))
    /\ WakeFrame

\* lines 185-188 with the assertion made on active_sources (the second read)
testWakeLock_ConfirmRecordedWrongList(stdout) ==
    /\ test = "testWakeLock" /\ pc = "read3"
    /\ calls' = Append(calls, Cat_(_WAKE_UNLOCK_PATH))
    /\ reads' = Append(reads, stdout)
    /\ LET active_sources == split(reads[2])
       IN  IF lock_name \in Range(active_sources)
           THEN Finish("pass", NoMessage)
           ELSE Finish("AssertionFailure",
                       Msg("inactive wake lock not reported in %s",
                           _WAKE_UNLOCK_PATH, <<>>, ""))
    /\ WakeFrame

\* lines 185-188
testWakeLock_ConfirmRecorded(stdout) ==
    /\ test = "testWakeLock" /\ pc = "read3"
    /\ calls' = Append(calls, Cat_(_WAKE_UNLOCK_PATH))
    /\ reads' = Append(reads, stdout)
    /\ LET inactive_sources == split(stdout)
       IN  IF lock_name \in Range(inactive_sources)
           THEN Finish("pass", NoMessage)
           ELSE Finish("AssertionFailure",
                       Msg("inactive wake lock not reported in %s",
                           _WAKE_UNLOCK_PATH, <<>>, ""))
    /\ WakeFrame

\* the tokens 'KernelApiSysfsTestWakeLock' + uuid4().hex can be
Tokens == {<<"T", "1">>, <<"1", "T">>}

InitWake ==
    /\ test = "testWakeLock"
    /\ pc = "lock"
    /\ lock_name \in Tokens
    /\ fs = [p \in {} |-> 0]
    /\ links = <<>>
    /\ dirlist = <<>>
    /\ idx = 0
    /\ calls = <<>>
    /\ verdict = "running"
    /\ message = NoMessage
    /\ regex = ""
    /\ text = <<>>
    /\ returned = 0
    /\ reads = <<>>
    /\ wakelocks = <<>>
    /\ activeLocks = {}
    /\ acquired = {}

-----------------------------------------------------------------------------
(* testWakeLock against a shell whose `cat` may print anything.            *)

OutAlphabet == {"T", "1", " "}
OutTexts == TextsUpTo(OutAlphabet, MaxOut)

KernelUnchanged == UNCHANGED <<wakelocks, activeLocks, acquired>>

NextWake ==
    \/ testWakeLock_Enable /\ KernelUnchanged
    \/ \E out \in OutTexts : testWakeLock_ConfirmEnabled(out) /\ KernelUnchanged
    \/ testWakeLock_Disable /\ KernelUnchanged
    \/ \E out \in OutTexts : testWakeLock_ConfirmDisabled(out) /\ KernelUnchanged
    \/ \E out \in OutTexts : testWakeLock_ConfirmRecorded(out) /\ KernelUnchanged

SpecWake == InitWake /\ [][NextWake]_vars

-----------------------------------------------------------------------------
(* testWakeLock against the kernel's wake-lock subsystem, with other       *)
(* holders acquiring and releasing wake locks of their own in between.     *)

\* write of a name to /sys/power/wake_lock: register the name if new, activate it
pm_wake_lock(name) ==
    /\ wakelocks' = IF name \in Range(wakelocks) THEN wakelocks
                    ELSE Append(wakelocks, name)
    /\ activeLocks' = activeLocks \cup {name}
    /\ acquired' = acquired \cup {name}

\* write of a name to /sys/power/wake_unlock: deactivate a registered name
\* (the write fails, changing nothing, for a name that is not registered)
pm_wake_unlock(name) ==
    /\ activeLocks' = IF name \in Range(wakelocks) THEN activeLocks \ {name}
                      ELSE activeLocks
    /\ UNCHANGED <<wakelocks, acquired>>

RECURSIVE Join(_)
Join(names) ==
    IF names = <<>> THEN <<>>
    ELSE IF Len(names) = 1 THEN Head(names)
    ELSE Head(names) \o <<" ">> \o Join(Tail(names))

\* read of wake_lock (show_active) or wake_unlock (~show_active): the
\* registered names in that state, separated by blanks, then a newline
pm_show_wakelocks(show_active) ==
    Join(SelectSeq(wakelocks, LAMBDA n : (n \in activeLocks) = show_active))
        \o <<"\n">>

\* names of the other holders: none is a token
OtherNames == {<<"T">>, <<"T", "1", "T">>}

OtherAcquires ==
    /\ \E n \in OtherNames : pm_wake_lock(n)
    /\ UNCHANGED <<test, pc, fs, links, dirlist, idx, calls, verdict, message,
                   regex, text, returned, lock_name, reads>>

OtherReleases ==
    /\ \E n \in OtherNames : pm_wake_unlock(n)
    /\ UNCHANGED <<test, pc, fs, links, dirlist, idx, calls, verdict, message,
                   regex, text, returned, lock_name, reads>>

NextKernel ==
    \/ testWakeLock_Enable /\ pm_wake_lock(lock_name)
    \/ testWakeLock_ConfirmEnabled(pm_show_wakelocks(TRUE)) /\ KernelUnchanged
    \/ testWakeLock_Disable /\ pm_wake_unlock(lock_name)
    \/ testWakeLock_ConfirmDisabled(pm_show_wakelocks(TRUE)) /\ KernelUnchanged
    \/ testWakeLock_ConfirmRecorded(pm_show_wakelocks(FALSE)) /\ KernelUnchanged
    \/ OtherAcquires
    \/ OtherReleases

SpecKernel == InitWake /\ [][NextKernel]_vars

-----------------------------------------------------------------------------
(* The validators called on their own: ConvertToInteger and MatchRegex     *)
(* applied to every text of the bounded sets below.                        *)

IntAlphabet == {"1", "2", "-", "+", " ", "\n", "a"}
IntTexts == TextsUpTo(IntAlphabet, MaxText)

RegexAlphabet == {"a", "b", "0", "-", ","}
RegexTexts == TextsUpTo(RegexAlphabet, MaxText)

NoFiles == [p \in {} |-> 0]

InitValidators ==
    /\ \/ test = "ConvertToInteger" /\ text \in IntTexts /\ regex = ""
       \/ test = "MatchRegex" /\ text \in RegexTexts /\ regex \in Regexes
    /\ pc = "call"
    /\ fs = NoFiles
    /\ links = <<>>
    /\ dirlist = <<>>
    /\ idx = 0
    /\ calls = <<>>
    /\ verdict = "running"
    /\ message = NoMessage
    /\ returned = 0
    /\ lock_name = <<>>
    /\ reads = <<>>
    /\ wakelocks = <<>>
    /\ activeLocks = {}
    /\ acquired = {}

CallConvertToInteger ==
    /\ test = "ConvertToInteger"
    /\ pc = "call"
    /\ LET o == ConvertToInteger(text)
       IN  /\ verdict' = IF o.raised THEN "AssertionFailure" ELSE "pass"
           /\ message' = o.message
           /\ returned' = o.value
    /\ pc' = "done"
    /\ UNCHANGED <<test, text, regex, fs, links, dirlist, idx, calls, lock_name, reads,
                   wakelocks, activeLocks, acquired>>

CallMatchRegex ==
    /\ test = "MatchRegex"
    /\ pc = "call"
    /\ LET o == MatchRegex(regex, text)
       IN  /\ verdict' = IF o.raised THEN "AssertionFailure" ELSE "pass"
           /\ message' = o.message
    /\ pc' = "done"
    /\ UNCHANGED <<test, text, regex, returned, fs, links, dirlist, idx, calls,
                   lock_name, reads, wakelocks, activeLocks, acquired>>

NextValidators == CallConvertToInteger \/ CallMatchRegex

SpecValidators == InitValidators /\ [][NextValidators]_vars

-----------------------------------------------------------------------------
(* Grammars the validators are compared with, stated independently of the  *)
(* scanning code above.                                                    *)

\* ^-?\d+$ with $ only at the very end of the text
StrictInteger(s) ==
    /\ Len(s) >= 1
    /\ LET b == IF s[1] = "-" THEN 2 ELSE 1
       IN  b <= Len(s) /\ \A k \in b..Len(s) : s[k] \in Digits

\* ^[+-]?\d+$
SignedDigits(s) ==
    /\ Len(s) >= 1
    /\ LET b == IF s[1] \in {"+", "-"} THEN 2 ELSE 1
       IN  b <= Len(s) /\ \A k \in b..Len(s) : s[k] \in Digits

\* whitespace, ^[+-]?\d+$, whitespace
PaddedInteger(s) ==
    \E a \in 1..Len(s) : \E b \in a..Len(s) :
        /\ \A k \in 1..(a - 1) : s[k] \in Whitespace
        /\ \A k \in (b + 1)..Len(s) : s[k] \in Whitespace
        /\ SignedDigits(SubSeq(s, a, b))

\* s is a word of the language of r
RECURSIVE InLanguage(_, _)
InLanguage(r, s) ==
    CASE r.op = "chr"   -> s = <<r.c>>
      [] r.op = "digit" -> Len(s) = 1 /\ s[1] \in Digits
      [] r.op = "cat"   ->
            \E k \in 0..Len(s) :
                /\ InLanguage(r.a, SubSeq(s, 1, k))
                /\ InLanguage(r.b, SubSeq(s, k + 1, Len(s)))
      [] r.op = "alt"   -> InLanguage(r.a, s) \/ InLanguage(r.b, s)
      [] r.op = "opt"   -> s = <<>> \/ InLanguage(r.a, s)
      [] r.op = "star"  ->
            \/ s = <<>>
            \/ \E k \in 1..Len(s) :
                /\ InLanguage(r.a, SubSeq(s, 1, k))
                /\ InLanguage(r, SubSeq(s, k + 1, Len(s)))

-----------------------------------------------------------------------------
(* Claims about the validators (specification SpecValidators).             *)

C5_CompleteMatch ==
    test = "MatchRegex" /\ pc = "done" =>
        /\ (verdict = "pass") <=> InLanguage(compile(regex), text)
        /\ verdict # "pass" =>
              /\ verdict = "AssertionFailure"
              /\ message.text = text
              /\ message.regex = regex

-----------------------------------------------------------------------------
(* Claims about testWakeLock against an arbitrary shell (SpecWake).        *)

\* name is one of the whitespace-separated entries of s
\* (a name holds no whitespace)
IsEntry(name, s) ==
    \E a \in 1..Len(s) :
        LET b == a + Len(name) - 1
        IN  /\ b <= Len(s)
            /\ SubSeq(s, a, b) = name
            /\ a = 1 \/ s[a - 1] \in Whitespace
            /\ b = Len(s) \/ s[b + 1] \in Whitespace

LockWritten   == \E j \in 1..Len(calls) : calls[j] = Echo(lock_name, _WAKE_LOCK_PATH)
UnlockWritten == \E j \in 1..Len(calls) : calls[j] = Echo(lock_name, _WAKE_UNLOCK_PATH)

\* the five commands of testWakeLock, in the order of the source
WakeCommands ==
    << Echo(lock_name, _WAKE_LOCK_PATH), Cat_(_WAKE_LOCK_PATH),
       Echo(lock_name, _WAKE_UNLOCK_PATH), Cat_(_WAKE_LOCK_PATH),
       Cat_(_WAKE_UNLOCK_PATH) >>

\* C1 as stated: in every finished run in which the lock-request write was
\* issued, the unlock-request write of the same token was issued too,
\* whatever the first active-sources read returned.
C1_UnlockAlwaysWritten ==
    pc = "done" /\ LockWritten => UnlockWritten

\* C1 amended: the unlock-request write is issued exactly in the runs whose
\* first active-sources read holds the token as an entry, and then with the
\* token of the lock-request write; a run whose first read lacks the token
\* ends right after that read, as an assertion failure ("active wake lock not
\* reported"), with two commands issued and the lock never released.
C1_UnlockOnlyAfterConfirmedLock ==
    /\ UnlockWritten => Len(reads) >= 1 /\ IsEntry(lock_name, reads[1])
    /\ \A j \in 1..Len(calls) :
          calls[j].op = "echo" /\ calls[j].path = _WAKE_UNLOCK_PATH
              => calls[j].arg = lock_name /\ calls[1].arg = lock_name
    /\ pc = "done" =>
          /\ LockWritten
          /\ UnlockWritten <=> IsEntry(lock_name, reads[1])
          /\ ~IsEntry(lock_name, reads[1]) =>
                /\ verdict = "AssertionFailure"
                /\ message.fmt = "active wake lock not reported in %s"
                /\ Len(calls) = 2

C1_Witness ==
    /\ pc = "done"
    /\ reads = << <<"T", "1", "T">> >>
    /\ lock_name = <<"T", "1">>
    /\ LockWritten
    /\ ~UnlockWritten
    /\ verdict = "AssertionFailure"

\* C2: the commands issued are always an initial part of the fixed sequence
\* echo token > wake_lock, cat wake_lock, echo token > wake_unlock,
\* cat wake_lock, cat wake_unlock (none repeated, none out of order), and a
\* finished run passed if and only if all five were issued, the token is an
\* entry of the first wake_lock read, is no entry of the second wake_lock
\* read, and is an entry of the wake_unlock read.
C2_FixedOrderAndVerdict ==
    /\ Len(calls) <= Len(WakeCommands)
    /\ calls = SubSeq(WakeCommands, 1, Len(calls))
    /\ verdict = "pass" => pc = "done"
    /\ pc = "done" =>
          ((verdict = "pass") <=>
              /\ Len(reads) = 3
              /\ Len(calls) = 5
              /\ IsEntry(lock_name, reads[1])
              /\ ~IsEntry(lock_name, reads[2])
              /\ IsEntry(lock_name, reads[3]))

C2_Witness ==
    /\ pc = "done"
    /\ verdict = "pass"
    /\ lock_name = <<"1", "T">>
    /\ Len(calls) = 5
    /\ reads[1] = <<" ", "1", "T">>
    /\ reads[2] = <<"1", "T", "1">>
    /\ reads[3] = <<"1", "T", " ">>

-----------------------------------------------------------------------------
(* Claims about testWakeLock against the wake-lock subsystem (SpecKernel). *)

\* C3: against the subsystem, with other holders acquiring and releasing
\* locks under other names at any point between the test's commands, the
\* test never fails and a finished run has passed; and every name listed as
\* active or as inactive is a name that was acquired.
C3_PassesAmongOtherHolders ==
    /\ verdict \in {"running", "pass"}
    /\ pc = "done" => verdict = "pass"
    /\ \A n \in Range(split(pm_show_wakelocks(TRUE)))
                  \cup Range(split(pm_show_wakelocks(FALSE))) : n \in acquired

C3_Witness ==
    /\ pc = "done"
    /\ verdict = "pass"
    /\ lock_name = <<"T", "1">>
    /\ reads[2] = <<"T", "1", "T", " ", "T", "\n">>
    /\ <<"T">> \notin activeLocks
    /\ <<"T">> \in acquired

-----------------------------------------------------------------------------
(* Claims about the path checks (specification Spec).                      *)

\* whether a logged lookup signalled that its path is absent or unreadable
LookupFailed(c) ==
    \/ c.op = "GetPermission" /\ ~fs[c.path].stat
    \/ c.op = "ReadFileContent" /\ ~fs[c.path].cat

\* s is one integer or one range lo-hi
OnlineRange(s) ==
    \/ Len(s) >= 1 /\ \A k \in 1..Len(s) : s[k] \in Digits
    \/ \E d \in 2..(Len(s) - 1) :
          /\ s[d] = "-"
          /\ \A k \in 1..Len(s) : k # d => s[k] \in Digits

\* s is a comma-separated list of integers and ranges: every stretch between
\* two neighbouring commas (or an end of s) is an integer or a range
OnlineList(s) ==
    LET cuts == {0, Len(s) + 1} \cup {k \in 1..Len(s) : s[k] = ","}
    IN  \A a \in cuts : \A b \in cuts :
            (a < b /\ \A c \in cuts : ~(a < c /\ c < b))
                => OnlineRange(SubSeq(s, a + 1, b - 1))

\* content is in the grammar once one trailing newline, if any, is dropped
OnlineContent(content) ==
    \/ OnlineList(content)
    \/ /\ Len(content) >= 1
       /\ content[Len(content)] = "\n"
       /\ OnlineList(SubSeq(content, 1, Len(content) - 1))

\* content parses as an integer equal to 1
ParsesAsOne(content) ==
    \E a \in 1..Len(content) : \E b \in a..Len(content) :
        /\ \A k \in 1..(a - 1) : content[k] \in Whitespace
        /\ \A k \in (b + 1)..Len(content) : content[k] \in Whitespace
        /\ content[b] = "1"
        /\ \A k \in a..(b - 1) : content[k] = "0" \/ (k = a /\ content[k] = "+")
        /\ (content[a] = "+" => b > a)

Hctosys(k) == fs[links[k] \o "/hctosys"]

HctosysIsOne(k) == Hctosys(k).cat /\ ParsesAsOne(Hctosys(k).content)

\* C6 as stated: testRtcHctosys passes if and only if some discovered rtc has
\* hctosys content that parses as 1; it then stopped at the first such
\* entry; otherwise it fails with "No RTC with hctosys=1 present" after one
\* read of every discovered entry.
C6_PassIffSomeHctosysIsOne ==
    test = "testRtcHctosys" /\ pc = "done" =>
        /\ (verdict = "pass") <=> \E k \in 1..Len(links) : HctosysIsOne(k)
        /\ verdict = "pass" =>
              /\ HctosysIsOne(idx)
              /\ \A k \in 1..(idx - 1) : ~HctosysIsOne(k)
              /\ Len(calls) = 1 + idx
        /\ verdict # "pass" =>
              /\ verdict = "AssertionFailure"
              /\ message = NoRtc
              /\ Len(calls) = 1 + Len(links)

\* C7 as stated: in a finished check, every lookup (permission lookup or
\* content read) that signalled an absent or unreadable path has made the
\* check end with an AssertionFailure naming that path.
C7_LookupFailureEscalated ==
    pc = "done" =>
        \A j \in 1..Len(calls) :
            LookupFailed(calls[j]) =>
                /\ verdict = "AssertionFailure"
                /\ message.path = calls[j].path

Mtu(k) == fs[links[k] \o "/mtu"]

MtuGood(k) ==
    /\ Mtu(k).stat
    /\ Mtu(k).perm = ReadWriteBits
    /\ Mtu(k).cat
    /\ PaddedInteger(Mtu(k).content)

\* C8: a finished testNetMTU passed if and only if every entry found under
\* /sys/class/net has an mtu file that exists, is read-write, can be read
\* and holds an integer; with no entry found it passed.
C8_NetMTUPassIffAllGood ==
    test = "testNetMTU" /\ pc = "done" =>
        /\ dirlist = links
        /\ (verdict = "pass") <=> \A k \in 1..Len(links) : MtuGood(k)
        /\ links = <<>> => verdict = "pass"

C8_Witness ==
    /\ test = "testNetMTU"
    /\ pc = "done"
    /\ verdict = "pass"
    /\ Len(links) >= 2
    /\ Len(calls) = 1 + 2 * Len(links)

CpuOnline == fs[CpuOnlinePath]

\* C9: a finished testCpuOnlineFormat passed if and only if the online file
\* is read-only and its content, less one trailing newline, is a
\* comma-separated list of integers and lo-hi ranges; on a read-only file
\* "0-3,5,7-8" passes with and without one trailing newline, and "0-3,,5",
\* "abc", the empty content and "0-3,5,7-8" followed by two newlines fail.
C9_CpuOnlinePassIffGrammar ==
    test = "testCpuOnlineFormat" /\ pc = "done" =>
        /\ (verdict = "pass") <=>
              /\ CpuOnline.stat
              /\ CpuOnline.perm = ReadOnlyBits
              /\ CpuOnline.cat
              /\ OnlineContent(CpuOnline.content)
        /\ CpuOnline \in
              { File(ReadOnlyBits, <<"0", "-", "3", ",", "5", ",", "7", "-", "8">>),
                File(ReadOnlyBits, <<"0", "-", "3", ",", "5", ",", "7", "-", "8", "\n">>) }
              => verdict = "pass"
        /\ CpuOnline \in
              { File(ReadOnlyBits, <<"0", "-", "3", ",", ",", "5">>),
                File(ReadOnlyBits, <<"a", "b", "c">>),
                File(ReadOnlyBits, <<>>),
                File(ReadOnlyBits,
                     <<"0", "-", "3", ",", "5", ",", "7", "-", "8", "\n", "\n">>) }
              => verdict = "AssertionFailure"

C9_Witness ==
    /\ test = "testCpuOnlineFormat"
    /\ pc = "done"
    /\ verdict = "pass"
    /\ CpuOnline.content = <<"0", "-", "3", ",", "5", ",", "7", "-", "8", "\n">>

\* the paths testIpv4 / testNetMTU go through, in the order of their list
EntryPaths ==
    IF test = "testIpv4" THEN [k \in 1..Len(files) |-> Ipv4Path(k)]
    ELSE [k \in 1..Len(links) |-> links[k] \o "/mtu"]

\* the calls made on the entries (testNetMTU's listing comes first)
EntryCalls == IF test = "testNetMTU" /\ calls # <<>> THEN Tail(calls) ELSE calls

PermBad(path) == ~(fs[path].stat /\ fs[path].perm = ReadWriteBits)

ReadBad(path) == ~(fs[path].cat /\ PaddedInteger(fs[path].content))

\* C10: in testIpv4 and testNetMTU the calls go through the entries in list
\* order, permission lookup then content read for each; a permission lookup
\* that fails or reports another class than read-write, and a content read
\* that fails or returns no integer, is the last call of the check, which
\* then has ended without passing (as an assertion failure, unless the read
\* itself failed); so no path is read whose classification failed.
C10_InOrderStopAtFirstFailure ==
    test \in {"testIpv4", "testNetMTU"} =>
        /\ Len(EntryCalls) <= 2 * Len(EntryPaths)
        /\ \A j \in 1..Len(EntryCalls) :
              /\ EntryCalls[j].path = EntryPaths[(j + 1) \div 2]
              /\ EntryCalls[j].op =
                    IF j % 2 = 1 THEN "GetPermission" ELSE "ReadFileContent"
              /\ EntryCalls[j].op = "GetPermission" /\ PermBad(EntryCalls[j].path)
                    => /\ j = Len(EntryCalls)
                       /\ pc = "done"
                       /\ verdict = "AssertionFailure"
              /\ EntryCalls[j].op = "ReadFileContent" /\ ReadBad(EntryCalls[j].path)
                    => /\ j = Len(EntryCalls)
                       /\ pc = "done"
                       /\ verdict = IF fs[EntryCalls[j].path].cat
                                    THEN "AssertionFailure" ELSE "IOError"
              /\ EntryCalls[j].op = "ReadFileContent"
                    => ~PermBad(EntryCalls[j].path)
        /\ pc = "done" /\ verdict = "pass" => Len(EntryCalls) = 2 * Len(EntryPaths)

C10_Witness ==
    /\ test = "testIpv4"
    /\ pc = "done"
    /\ verdict = "AssertionFailure"
    /\ Len(calls) = 3
    /\ fs[Ipv4Path(2)] = File(ReadOnlyBits, <<"4", "\n">>)
    /\ fs[Ipv4Path(3)] = File(ReadWriteBits, <<"4", "\n">>)

=============================================================================
